---- MODULE Spec2Model ----
(***************************************************************************)
(* A model of ufile-core (src/src/lib.rs): the magic-number matcher, the   *)
(* path resolver, the batch / recursive traversal operations and the       *)
(* aggregation utilities.  Each filesystem call of the program is one      *)
(* step, so that a concurrent actor can act between two calls.             *)
(***************************************************************************)
EXTENDS Integers, Sequences, FiniteSets, TLC

(***************************************************************************)
(* Bounds of the model.                                                    *)
(***************************************************************************)
\* longest path list (or buffer list) handed to a batch operation
MaxPaths == 2
\* longest byte buffer handed to identify_from_bytes
MaxLen == 3
\* longest signature table
MaxEntries == 2
\* number of deletions the concurrent filesystem actor performs
MaxDeletes == 1

(***************************************************************************)
(* Values.                                                                 *)
(***************************************************************************)
\* Option<T>: None is the empty sequence, Some(x) the one-element sequence.
None == <<>>

Some(x) == <<x>>

\* the byte alphabet of the model
Byte == 0..1

\* every byte buffer of at most MaxLen bytes
Buffers == UNION {[1..n -> Byte] : n \in 0..MaxLen}

\* Result<T, FileProcessingError>
Ok(v) == [tag |-> "Ok", val |-> v]

Err(e) == [tag |-> "Err", val |-> e]

\* the value of an operation that returns no Result: an Option or a Vec
Returned(v) == [tag |-> "Returned", val |-> v]

\* no operation has returned yet
Pending == [tag |-> "Pending", val |-> <<>>]

\* FileProcessingError: Io, PathNotFound, WalkDir, each carrying the path
FileProcessingError(kind, path) == [kind |-> kind, path |-> path]

\* struct FileInfo
FileInfo(path, description, is_directory, size) ==
  [path |-> path, description |-> description,
   is_directory |-> is_directory, size |-> size]

\* PathBuf::new(): the empty path of an in-memory classification
EmptyPath == ""

(***************************************************************************)
(* The signature table (get_magic_numbers) and the sniffing oracle         *)
(* (infer::get).                                                           *)
(***************************************************************************)
\* the description of the k-th entry of a table
SigLabels == <<"PNG image", "TAR archive", "ZIP archive", "GZIP data">>

\* the magic byte sequences of the model: of no, one or two bytes
Magics == UNION {[1..n -> Byte] : n \in 0..2}

\* the offsets of the model
Offsets == 0..1

\* every signature table of at most MaxEntries entries
Tables ==
  UNION {{t \in [1..n -> [offset : Offsets, magic : Magics,
                          description : {SigLabels[k] : k \in 1..n}]] :
            \A k \in 1..n : t[k].description = SigLabels[k]} :
         n \in 0..MaxEntries}

\* the table of the filesystem specifications: a two-byte signature at
\* offset 0, then a one-byte signature at offset 1 that overlaps it
SampleTable ==
  << [offset |-> 0, magic |-> <<1, 0>>, description |-> "PNG image"],
     [offset |-> 1, magic |-> <<0>>, description |-> "TAR archive"] >>

\* the MIME types the oracle answers with
Mimes == {"text/plain", "image/jpeg"}

\* the oracles of the model: they decide on the leading byte
Oracles == [Byte -> {None} \cup {Some(m) : m \in Mimes}]

\* the oracle of the filesystem specifications
SampleOracle == [b \in Byte |-> IF b = 0 THEN Some("text/plain") ELSE None]

(***************************************************************************)
(* The filesystem: a tree d { f, s { g } } of two directories and two      *)
(* files, each entry present or not, readable or not.                      *)
(***************************************************************************)
Dirs == {"d", "d/s"}

Files == {"d/f", "d/s/g"}

Paths == Dirs \cup Files

Parent(p) ==
  CASE p = "d" -> ""
    [] p = "d/f" -> "d"
    [] p = "d/s" -> "d"
    [] p = "d/s/g" -> "d/s"

RECURSIVE Under(_, _)
\* p is q or lies below q
Under(p, q) == p = q \/ (p # "d" /\ Under(Parent(p), q))

\* the contents a file may have: matched by the table, by the oracle, by none
FileContents == {<<1, 0>>, <<0, 1>>, <<1, 1>>}

DefaultContent == <<1, 1>>

\* the orders in which read_dir may list a directory
Listings ==
  {[d \in Dirs |-> IF d = "d" THEN <<"d/f", "d/s">> ELSE <<"d/s/g">>],
   [d \in Dirs |-> IF d = "d" THEN <<"d/s", "d/f">> ELSE <<"d/s/g">>]}

DefaultListing == [d \in Dirs |-> IF d = "d" THEN <<"d/f", "d/s">> ELSE <<"d/s/g">>]

\* the filesystem states: a child exists only in an existing directory; what
\* cannot be observed (the content of a file that cannot be read, the order
\* of a directory with fewer than two entries) has its default value
FsStates ==
  {s \in [exist : SUBSET Paths, readable : SUBSET Paths,
          content : [Files -> FileContents], listing : Listings] :
     /\ s.readable \subseteq s.exist
     /\ \A p \in s.exist : p = "d" \/ Parent(p) \in s.exist
     /\ \A p \in Files : p \notin s.readable => s.content[p] = DefaultContent
     /\ ({"d/f", "d/s"} \subseteq s.exist /\ "d" \in s.readable)
          \/ s.listing = DefaultListing}

\* a filesystem without any entry
EmptyFs ==
  [exist |-> {}, readable |-> {},
   content |-> [p \in Files |-> DefaultContent], listing |-> DefaultListing]

(***************************************************************************)
(* The state.                                                              *)
(***************************************************************************)
VARIABLES
  table,     \* get_magic_numbers(): the signature table
  sniff,     \* infer::get: the oracle, a function of the leading byte
  fs,        \* the filesystem
  deletes,   \* deletions the concurrent actor has performed
  op,        \* the public operation in progress, "" when there is none
  args,      \* its argument: a list of paths or of byte buffers
  pc,        \* the next filesystem call of the operation
  i,         \* the index of the batch loop in args (1-based)
  cur,       \* identify_file_from_path: its path
  caller,    \* identify_file_from_path: the function that called it
  md,        \* identify_file_from_path: metadata.len()
  walk,      \* identify_recursive: the WalkDir iterator
  results,   \* the results vector of the batch operation
  rresults,  \* the results vector of identify_recursive
  ret,       \* the value the operation returned
  log,       \* history: the filesystem calls of the operation, in order
  sniffs,    \* history: the buffers the oracle was consulted on
  agg        \* the aggregation applied to the returned records

vars ==
  <<table, sniff, fs, deletes, op, args, pc, i, cur, caller, md, walk,
    results, rresults, ret, log, sniffs, agg>>

\* no WalkDir iterator
NoWalk == [start |-> None, stack |-> <<>>]

\* no aggregation applied
NoAgg == [op |-> "", out |-> <<>>, keys |-> <<>>]

(***************************************************************************)
(* identify_from_bytes                                                     *)
(***************************************************************************)
\* the condition of the loop body: the buffer holds the magic at the offset
Matches(entry, bytes) ==
  /\ Len(bytes) >= entry.offset + Len(entry.magic)
  /\ SubSeq(bytes, entry.offset + 1, entry.offset + Len(entry.magic)) = entry.magic

RECURSIVE ScanLast(_, _)
\* a scan that keeps the last matching entry instead of returning at the first
ScanLast(bytes, k) ==
  IF k > Len(table) THEN 0
  ELSE LET later == ScanLast(bytes, k + 1)
       IN  IF later # 0 THEN later
           ELSE IF Matches(table[k], bytes) THEN k ELSE 0

RECURSIVE ScanFrom(_, _)
\* the for loop over the table from entry k on: the index of the entry it
\* returns at, 0 when it runs to the end
ScanFrom(bytes, k) ==
  IF k > Len(table) THEN 0
  ELSE IF Matches(table[k], bytes) THEN k
  ELSE ScanFrom(bytes, k + 1)

\* infer::get(bytes)
infer_get(bytes) == IF bytes = <<>> THEN None ELSE sniff[bytes[1]]

\* the oracle asked first, the table only when it knows nothing
identify_from_bytes_oracle_first(bytes) ==
  LET kind == infer_get(bytes)
      k == ScanFrom(bytes, 1)
  IN  IF kind # None
      THEN [value |-> Some(FileInfo(EmptyPath, kind[1], FALSE, Some(Len(bytes)))),
            sniffed |-> TRUE]
      ELSE [value |-> IF k # 0
                      THEN Some(FileInfo(EmptyPath, table[k].description, FALSE,
                                         Some(Len(bytes))))
                      ELSE None,
            sniffed |-> TRUE]

\* identify_from_bytes with its effect: value is what it returns, sniffed
\* whether it called the oracle
identify_from_bytes_run(bytes) ==
  LET k == ScanFrom(bytes, 1)
  IN  IF k # 0
      THEN [value |-> Some(FileInfo(EmptyPath, table[k].description, FALSE,
                                    Some(Len(bytes)))),
            sniffed |-> FALSE]
      ELSE LET kind == infer_get(bytes)
           IN  [value |-> IF kind # None
                          THEN Some(FileInfo(EmptyPath, kind[1], FALSE,
                                             Some(Len(bytes))))
                          ELSE None,
                sniffed |-> TRUE]

identify_from_bytes(bytes) == identify_from_bytes_run(bytes).value

\* the oracle calls of identify_from_bytes(bytes)
SniffsOf(bytes) ==
  IF identify_from_bytes_run(bytes).sniffed THEN <<bytes>> ELSE <<>>

(***************************************************************************)
(* The filesystem calls of the program.                                    *)
(***************************************************************************)
\* Path::exists(), and fs::metadata() succeeding
path_exists(p) == p \in fs.exist

\* Path::is_dir(): false for a path that does not exist
path_is_dir(p) == p \in fs.exist /\ p \in Dirs

\* fs::read() succeeding
can_read(p) == p \in fs.exist /\ p \in fs.readable

\* one call in the log
Call(name, p, ok) == [call |-> name, path |-> p, ok |-> ok, item |-> i]

(***************************************************************************)
(* WalkDir: a stack of the directories being listed.  A directory is read  *)
(* (read_dir) when its entry is yielded; a failure to read it is yielded   *)
(* as the next item.                                                       *)
(***************************************************************************)
\* fs::read_dir(p) as WalkDir keeps it: the entries left to yield, or the error
ReadDirList(p) ==
  IF can_read(p)
  THEN [path |-> p, err |-> FALSE,
        rest |-> SelectSeq(fs.listing[p], LAMBDA c : c \in fs.exist)]
  ELSE [path |-> p, err |-> TRUE, rest |-> <<>>]

\* a walk that lists the root only and descends into no subdirectory
HandleEntryRootOnly(stack, p) ==
  IF p \in Dirs /\ stack = <<>> THEN Append(stack, ReadDirList(p)) ELSE stack

\* IntoIter::handle_entry: a directory entry is pushed on the stack
HandleEntry(stack, p) ==
  IF p \in Dirs THEN Append(stack, ReadDirList(p)) ELSE stack

Entered(stack) == [start |-> None, stack |-> stack]

RECURSIVE StackNext(_)
\* IntoIter::next once the root was yielded: the possible next items.  An
\* entry deleted since its directory was read may still be yielded or not.
StackNext(stack) ==
  IF stack = <<>> THEN {[kind |-> "end", path |-> "", walk |-> NoWalk]}
  ELSE LET n == Len(stack)
           top == stack[n]
           below == SubSeq(stack, 1, n - 1)
       IN  IF top.err
           THEN {[kind |-> "err", path |-> top.path,
                  walk |-> Entered(Append(below, [top EXCEPT !.err = FALSE]))]}
           ELSE IF top.rest = <<>> THEN StackNext(below)
           ELSE LET dent == Head(top.rest)
                    popped == Append(below, [top EXCEPT !.rest = Tail(top.rest)])
                IN  {[kind |-> "entry", path |-> dent,
                      walk |-> Entered(HandleEntry(popped, dent))]}
                    \cup (IF path_exists(dent) THEN {} ELSE StackNext(popped))

\* IntoIter::next: the root first (its metadata is queried), then the stack
WalkNext(w) ==
  IF w.start # None
  THEN LET root == w.start[1]
       IN  IF path_exists(root)
           THEN {[kind |-> "entry", path |-> root,
                  walk |-> Entered(HandleEntry(<<>>, root))]}
           ELSE {[kind |-> "err", path |-> root, walk |-> NoWalk]}
  ELSE StackNext(w.stack)

(***************************************************************************)
(* Returning from an operation, and going round the batch loop.            *)
(***************************************************************************)
\* the operation returns r; its local vectors are dropped
Finish(r) ==
  /\ pc' = "done"
  /\ ret' = r
  /\ i' = 0
  /\ results' = <<>>
  /\ rresults' = <<>>
  /\ walk' = NoWalk
  /\ cur' = ""
  /\ caller' = ""
  /\ md' = 0

\* return Err(..) / the ? operator
Fail(kind, p) == Finish(Err(FileProcessingError(kind, p)))

\* the head of the batch loop of the operation
LoopPc == IF op = "identify_multiple" THEN "m_exists" ELSE "mr_exists"

\* the batch loop goes on to its next path with results res, or returns
\* Ok(results) when there is none
NextPath(res) ==
  IF i + 1 > Len(args)
  THEN Finish(Ok(res))
  ELSE /\ pc' = LoopPc
       /\ i' = i + 1
       /\ results' = res
       /\ rresults' = <<>>
       /\ walk' = NoWalk
       /\ cur' = ""
       /\ caller' = ""
       /\ md' = 0
       /\ ret' = ret

\* identify_file_from_path returns Ok(info) to its caller, which pushes it
Deliver(info) ==
  IF caller = "identify_recursive"
  THEN /\ rresults' = Append(rresults, info)
       /\ pc' = "r_next"
       /\ cur' = ""
       /\ md' = 0
       /\ UNCHANGED <<results, i, ret, walk, caller>>
  ELSE NextPath(Append(results, info))

\* an extend that puts the new records in front
ExtendFront(res, more) == more \o res

\* results.extend(more)
Extend(res, more) == res \o more

\* what no step of an operation changes
Fixed == <<table, sniff, fs, deletes, op, args, agg>>

\* what an operation's start leaves alone
Untouched == <<table, sniff, fs, deletes, agg, log, sniffs>>

\* the locals of an operation that has not reached them yet
NoLocals == <<ret, results, rresults, walk, cur, caller, md>>

(***************************************************************************)
(* identify_file_from_path                                                 *)
(***************************************************************************)
\* a directory record that reports a size
create_directory_info_sized(path) == FileInfo(path, "Directory", TRUE, Some(0))

create_directory_info(path) == FileInfo(path, "Directory", TRUE, None)

\* a metadata failure reported as a missing path
identify_file_from_path_metadata_not_found ==
  /\ pc = "metadata"
  /\ log' = Append(log, Call("metadata", cur, path_exists(cur)))
  /\ IF ~path_exists(cur) THEN Fail("PathNotFound", cur)
     ELSE IF cur \in Dirs THEN Deliver(create_directory_info(cur))
     ELSE /\ pc' = "read"
          /\ md' = Len(fs.content[cur])
          /\ UNCHANGED <<cur, caller, walk, results, rresults, i, ret>>
  /\ UNCHANGED sniffs
  /\ UNCHANGED Fixed

\* let metadata = fs::metadata(path)?; if metadata.is_dir() { return .. }
identify_file_from_path_metadata ==
  /\ pc = "metadata"
  /\ log' = Append(log, Call("metadata", cur, path_exists(cur)))
  /\ IF ~path_exists(cur) THEN Fail("Io", cur)
     ELSE IF cur \in Dirs THEN Deliver(create_directory_info(cur))
     ELSE /\ pc' = "read"
          /\ md' = Len(fs.content[cur])
          /\ UNCHANGED <<cur, caller, walk, results, rresults, i, ret>>
  /\ UNCHANGED sniffs
  /\ UNCHANGED Fixed

\* a read failure swallowed: the file is reported as of unknown type
identify_file_from_path_read_swallow ==
  /\ pc = "read"
  /\ log' = Append(log, Call("read", cur, can_read(cur)))
  /\ IF ~can_read(cur)
     THEN /\ Deliver(FileInfo(cur, "Unknown file type", FALSE, Some(md)))
          /\ sniffs' = sniffs
     ELSE LET bytes == fs.content[cur]
              found == identify_from_bytes(bytes)
              description == IF found # None THEN found[1].description
                             ELSE "Unknown file type"
          IN  /\ Deliver(FileInfo(cur, description, FALSE, Some(md)))
              /\ sniffs' = sniffs \o SniffsOf(bytes)
  /\ UNCHANGED Fixed

\* let bytes = fs::read(path)?; .. Ok(FileInfo { .. })
identify_file_from_path_read ==
  /\ pc = "read"
  /\ log' = Append(log, Call("read", cur, can_read(cur)))
  /\ IF ~can_read(cur) THEN Fail("Io", cur) /\ sniffs' = sniffs
     ELSE LET bytes == fs.content[cur]
              found == identify_from_bytes(bytes)
              description == IF found # None THEN found[1].description
                             ELSE "Unknown file type"
          IN  /\ Deliver(FileInfo(cur, description, FALSE, Some(md)))
              /\ sniffs' = sniffs \o SniffsOf(bytes)
  /\ UNCHANGED Fixed

(***************************************************************************)
(* identify_multiple                                                       *)
(***************************************************************************)
\* the path lists handed to the batch operations
PathLists == UNION {[1..n -> Paths] : n \in 0..MaxPaths}

call_identify_multiple ==
  /\ pc = "idle"
  /\ \E paths \in PathLists :
       /\ op' = "identify_multiple"
       /\ args' = paths
       /\ IF paths = <<>> THEN Finish(Ok(<<>>))
          ELSE pc' = "m_exists" /\ i' = 1 /\ UNCHANGED NoLocals
  /\ UNCHANGED Untouched

\* a loop that stops at a missing path and returns what it has
identify_multiple_exists_partial ==
  /\ pc = "m_exists"
  /\ LET path == args[i]
     IN  /\ log' = Append(log, Call("exists", path, path_exists(path)))
         /\ IF ~path_exists(path) THEN Finish(Ok(results))
            ELSE /\ pc' = "metadata"
                 /\ cur' = path
                 /\ caller' = "identify_multiple"
                 /\ UNCHANGED <<i, md, walk, results, rresults, ret>>
  /\ UNCHANGED sniffs
  /\ UNCHANGED Fixed

\* if !path.exists() { return Err(PathNotFound(..)) }
identify_multiple_exists ==
  /\ pc = "m_exists"
  /\ LET path == args[i]
     IN  /\ log' = Append(log, Call("exists", path, path_exists(path)))
         /\ IF ~path_exists(path) THEN Fail("PathNotFound", path)
            ELSE /\ pc' = "metadata"
                 /\ cur' = path
                 /\ caller' = "identify_multiple"
                 /\ UNCHANGED <<i, md, walk, results, rresults, ret>>
  /\ UNCHANGED sniffs
  /\ UNCHANGED Fixed

(***************************************************************************)
(* identify_recursive                                                      *)
(***************************************************************************)
call_identify_recursive ==
  /\ pc = "idle"
  /\ \E path \in Paths :
       /\ op' = "identify_recursive"
       /\ args' = <<path>>
       /\ pc' = "r_exists"
       /\ i' = 1
  /\ UNCHANGED NoLocals
  /\ UNCHANGED Untouched

\* if !path.exists() { return Err(PathNotFound(..)) }; WalkDir::new(path)
identify_recursive_exists ==
  /\ pc = "r_exists"
  /\ LET path == args[i]
     IN  /\ log' = Append(log, Call("exists", path, path_exists(path)))
         /\ IF ~path_exists(path) THEN Fail("PathNotFound", path)
            ELSE /\ pc' = "r_next"
                 /\ walk' = [start |-> Some(path), stack |-> <<>>]
                 /\ rresults' = <<>>
                 /\ UNCHANGED <<i, md, cur, caller, results, ret>>
  /\ UNCHANGED sniffs
  /\ UNCHANGED Fixed

\* for entry in WalkDir::new(path) { let entry = entry?; .. } Ok(results)
identify_recursive_next ==
  /\ pc = "r_next"
  /\ \E item \in WalkNext(walk) :
       CASE item.kind = "end" ->
              /\ IF op = "identify_recursive" THEN Finish(Ok(rresults))
                 ELSE NextPath(Extend(results, rresults))
              /\ log' = log
         [] item.kind = "err" ->
              /\ Fail("WalkDir", item.path)
              /\ log' = Append(log, Call("next", item.path, FALSE))
         [] item.kind = "entry" ->
              /\ pc' = "metadata"
              /\ cur' = item.path
              /\ caller' = "identify_recursive"
              /\ walk' = item.walk
              /\ log' = Append(log, Call("next", item.path, TRUE))
              /\ UNCHANGED <<i, md, results, rresults, ret>>
  /\ UNCHANGED sniffs
  /\ UNCHANGED Fixed

(***************************************************************************)
(* identify_multiple_recursive                                             *)
(***************************************************************************)
call_identify_multiple_recursive ==
  /\ pc = "idle"
  /\ \E paths \in PathLists :
       /\ op' = "identify_multiple_recursive"
       /\ args' = paths
       /\ IF paths = <<>> THEN Finish(Ok(<<>>))
          ELSE pc' = "mr_exists" /\ i' = 1 /\ UNCHANGED NoLocals
  /\ UNCHANGED Untouched

\* if !path.exists() { return Err(PathNotFound(..)) }
identify_multiple_recursive_exists ==
  /\ pc = "mr_exists"
  /\ LET path == args[i]
     IN  /\ log' = Append(log, Call("exists", path, path_exists(path)))
         /\ IF ~path_exists(path) THEN Fail("PathNotFound", path)
            ELSE /\ pc' = "mr_is_dir"
                 /\ UNCHANGED <<i, md, cur, caller, walk, results, rresults, ret>>
  /\ UNCHANGED sniffs
  /\ UNCHANGED Fixed

\* if path.is_dir() { results.extend(identify_recursive(path)?) } else { .. }
identify_multiple_recursive_is_dir ==
  /\ pc = "mr_is_dir"
  /\ LET path == args[i]
     IN  /\ log' = Append(log, Call("is_dir", path, TRUE))
         /\ IF path_is_dir(path)
            THEN pc' = "r_exists" /\ UNCHANGED <<cur, caller>>
            ELSE /\ pc' = "metadata"
                 /\ cur' = path
                 /\ caller' = "identify_multiple_recursive"
  /\ UNCHANGED <<i, md, walk, results, rresults, ret, sniffs>>
  /\ UNCHANGED Fixed

(***************************************************************************)
(* identify_from_bytes and identify_many_bytes as operations               *)
(***************************************************************************)
call_identify_from_bytes ==
  /\ pc = "idle"
  /\ \E bytes \in Buffers :
       /\ op' = "identify_from_bytes"
       /\ args' = <<bytes>>
       /\ Finish(Returned(identify_from_bytes(bytes)))
       /\ sniffs' = SniffsOf(bytes)
  /\ UNCHANGED <<table, sniff, fs, deletes, agg, log>>

\* files.into_iter().map(|bytes| identify_from_bytes(bytes).unwrap_or(..)).collect()
identify_many_bytes(files) ==
  [k \in 1..Len(files) |->
     LET found == identify_from_bytes(files[k])
     IN  IF found # None THEN found[1]
         ELSE FileInfo(EmptyPath, "Unknown file type", FALSE, Some(Len(files[k])))]

RECURSIVE SniffsOfAll(_)
\* the oracle calls of identify_many_bytes(files)
SniffsOfAll(files) ==
  IF files = <<>> THEN <<>>
  ELSE SniffsOf(Head(files)) \o SniffsOfAll(Tail(files))

\* the buffer lists handed to identify_many_bytes
BufferLists == UNION {[1..n -> FileContents \cup {<<>>}] : n \in 0..MaxPaths}

call_identify_many_bytes ==
  /\ pc = "idle"
  /\ \E files \in BufferLists :
       /\ op' = "identify_many_bytes"
       /\ args' = files
       /\ Finish(Returned(identify_many_bytes(files)))
       /\ sniffs' = SniffsOfAll(files)
  /\ UNCHANGED <<table, sniff, fs, deletes, agg, log>>

(***************************************************************************)
(* The aggregation utilities, applied to the records an operation returned *)
(***************************************************************************)
filter_files(rs) == SelectSeq(rs, LAMBDA info : ~info.is_directory)

\* the predicate of filter_files copied into filter_directories
filter_directories_negated(rs) == SelectSeq(rs, LAMBDA info : ~info.is_directory)

filter_directories(rs) == SelectSeq(rs, LAMBDA info : info.is_directory)

\* an insert that replaces the group instead of pushing to it
InsertOverwrite(grouped, info) ==
  [x \in DOMAIN grouped \cup {info.description} |->
     IF x = info.description THEN <<info>> ELSE grouped[x]]

\* grouped.entry(description).or_insert_with(Vec::new).push(file_info)
Insert(grouped, info) ==
  LET d == info.description
  IN  IF d \in DOMAIN grouped THEN [grouped EXCEPT ![d] = Append(@, info)]
      ELSE [x \in DOMAIN grouped \cup {d} |->
              IF x = d THEN <<info>> ELSE grouped[x]]

RECURSIVE GroupFrom(_, _)
\* the for loop of group_by_type over the records left
GroupFrom(grouped, rs) ==
  IF rs = <<>> THEN grouped
  ELSE GroupFrom(Insert(grouped, Head(rs)), Tail(rs))

\* HashMap::new()
EmptyMap == [x \in {} |-> <<>>]

group_by_type(rs) == GroupFrom(EmptyMap, rs)

\* the orders in which a HashMap may iterate over its keys: any
KeyOrders(m) ==
  {o \in [1..Cardinality(DOMAIN m) -> DOMAIN m] :
     \A a, b \in DOMAIN o : a # b => o[a] # o[b]}

\* the operation returned a vector of records
HasRecords ==
  /\ pc = "done"
  /\ \/ ret.tag = "Ok"
     \/ ret.tag = "Returned" /\ op = "identify_many_bytes"

Operation == <<table, sniff, fs, deletes, op, args, pc, i, ret, log, sniffs>>

call_filter_files ==
  /\ HasRecords
  /\ agg = NoAgg
  /\ agg' = [op |-> "filter_files", out |-> filter_files(ret.val), keys |-> <<>>]
  /\ UNCHANGED Operation
  /\ UNCHANGED <<results, rresults, walk, cur, caller, md>>

call_filter_directories ==
  /\ HasRecords
  /\ agg = NoAgg
  /\ agg' = [op |-> "filter_directories", out |-> filter_directories(ret.val),
             keys |-> <<>>]
  /\ UNCHANGED Operation
  /\ UNCHANGED <<results, rresults, walk, cur, caller, md>>

call_group_by_type ==
  /\ HasRecords
  /\ agg = NoAgg
  /\ \E order \in KeyOrders(group_by_type(ret.val)) :
       agg' = [op |-> "group_by_type", out |-> group_by_type(ret.val),
               keys |-> order]
  /\ UNCHANGED Operation
  /\ UNCHANGED <<results, rresults, walk, cur, caller, md>>

(***************************************************************************)
(* The environment.                                                        *)
(***************************************************************************)
\* the caller takes the result; the next operation may start
Return ==
  /\ pc = "done"
  /\ pc' = "idle"
  /\ op' = ""
  /\ args' = <<>>
  /\ ret' = Pending
  /\ log' = <<>>
  /\ sniffs' = <<>>
  /\ agg' = NoAgg
  /\ UNCHANGED <<table, sniff, fs, deletes, i, results, rresults, walk, cur,
                 caller, md>>

\* a concurrent actor removes an entry, with all below it, while an
\* operation runs
Delete ==
  /\ pc \notin {"idle", "done"}
  /\ deletes < MaxDeletes
  /\ \E p \in fs.exist :
       fs' = [fs EXCEPT !.exist = {q \in @ : ~Under(q, p)},
                        !.readable = {q \in @ : ~Under(q, p)}]
  /\ deletes' = deletes + 1
  /\ UNCHANGED <<table, sniff, op, args, pc, i, cur, caller, md, walk, results,
                 rresults, ret, log, sniffs, agg>>

(***************************************************************************)
(* The specifications.                                                     *)
(***************************************************************************)
Idle ==
  /\ deletes = 0
  /\ op = ""
  /\ args = <<>>
  /\ pc = "idle"
  /\ i = 0
  /\ cur = ""
  /\ caller = ""
  /\ md = 0
  /\ walk = NoWalk
  /\ results = <<>>
  /\ rresults = <<>>
  /\ ret = Pending
  /\ log = <<>>
  /\ sniffs = <<>>
  /\ agg = NoAgg

\* the program over every filesystem, with the sample table and oracle
Init ==
  /\ table = SampleTable
  /\ sniff = SampleOracle
  /\ fs \in FsStates
  /\ Idle

Next ==
  \/ call_identify_from_bytes
  \/ call_identify_many_bytes
  \/ call_identify_multiple
  \/ identify_multiple_exists
  \/ call_identify_recursive
  \/ identify_recursive_exists
  \/ identify_recursive_next
  \/ call_identify_multiple_recursive
  \/ identify_multiple_recursive_exists
  \/ identify_multiple_recursive_is_dir
  \/ identify_file_from_path_metadata
  \/ identify_file_from_path_read
  \/ call_filter_files
  \/ call_filter_directories
  \/ call_group_by_type
  \/ Return

Spec == Init /\ [][Next]_vars

\* the byte matcher over every table and oracle
InitBytes ==
  /\ table \in Tables
  /\ sniff \in Oracles
  /\ fs = EmptyFs
  /\ Idle

NextBytes ==
  \/ call_identify_from_bytes
  \/ Return

SpecBytes == InitBytes /\ [][NextBytes]_vars

\* the program on a full tree, with a concurrent actor that deletes entries
InitConc ==
  /\ table = SampleTable
  /\ sniff = SampleOracle
  /\ fs \in {s \in FsStates : s.exist = Paths /\ s.readable = Paths}
  /\ Idle

NextConc ==
  \/ Next
  \/ Delete

SpecConc == InitConc /\ [][NextConc]_vars

(***************************************************************************)
(* Definitions the properties are stated with.                            *)
(***************************************************************************)
\* the smallest element of a non-empty set of numbers
Least(S) == CHOOSE k \in S : \A j \in S : k <= j

\* the matching condition, byte by byte
Holds(entry, b) ==
  /\ Len(b) >= entry.offset + Len(entry.magic)
  /\ \A j \in 1..Len(entry.magic) : b[entry.offset + j] = entry.magic[j]

\* the table entries the buffer satisfies
Matching(b) == {k \in 1..Len(table) : Holds(table[k], b)}

BatchOps == {"identify_multiple", "identify_recursive", "identify_multiple_recursive"}

\* a batch operation has returned
BatchDone == pc = "done" /\ op \in BatchOps

\* identify_from_bytes has returned
BytesDone == pc = "done" /\ op = "identify_from_bytes"

(***************************************************************************)
(* C1, C2: the byte matcher.                                               *)
(***************************************************************************)
\* C1: whenever some table entry matches the buffer, identify_from_bytes
\* returns the description of the first matching entry in table order,
\* whatever the offsets and magic lengths of the entries that match.
C1_FirstMatchWins ==
  (BytesDone /\ Matching(args[1]) # {}) =>
     /\ ret.val # None
     /\ ret.val[1].description = table[Least(Matching(args[1]))].description

\* two entries match, the first at the larger offset and with the shorter magic
C1_Witness ==
  /\ BytesDone
  /\ Cardinality(Matching(args[1])) >= 2
  /\ LET first == Least(Matching(args[1]))
         other == Least(Matching(args[1]) \ {first})
     IN  /\ table[first].offset > table[other].offset
         /\ Len(table[first].magic) < Len(table[other].magic)
         /\ ret.val[1].description = table[first].description

\* C2: the oracle is consulted only when no table entry matches.  With a
\* match the description is the entry's and the oracle is not called; with
\* none the oracle is called once on the buffer, and the result carries the
\* oracle's MIME type, or is None when the oracle knows nothing.
C2_OracleOnlyOnNoMatch ==
  BytesDone =>
     LET b == args[1]
     IN  IF Matching(b) # {}
         THEN /\ sniffs = <<>>
              /\ ret.val # None
              /\ ret.val[1].description = table[Least(Matching(b))].description
         ELSE /\ sniffs = <<b>>
              /\ IF infer_get(b) # None
                 THEN ret.val # None /\ ret.val[1].description = infer_get(b)[1]
                 ELSE ret.val = None

\* an entry matches a buffer the oracle would recognise, and is preferred
C2_Witness ==
  /\ BytesDone
  /\ Matching(args[1]) # {}
  /\ infer_get(args[1]) # None
  /\ sniffs = <<>>
  /\ ret.val[1].description \notin Mimes

(***************************************************************************)
(* The reference the traversal properties are stated against: what each    *)
(* item of a static filesystem yields, in processing order.                *)
(***************************************************************************)
\* the record a path of a static filesystem yields
RefRecord(p) ==
  IF p \in Dirs THEN FileInfo(p, "Directory", TRUE, None)
  ELSE LET found == identify_from_bytes(fs.content[p])
       IN  FileInfo(p, IF found # None THEN found[1].description
                       ELSE "Unknown file type",
                    FALSE, Some(Len(fs.content[p])))

\* what classifying an existing path yields: its record, or an I/O error
\* for a file that cannot be read
RefResolve(p) ==
  IF p \in Files /\ p \notin fs.readable
  THEN <<Err(FileProcessingError("Io", p))>>
  ELSE <<Ok(RefRecord(p))>>

RECURSIVE RefWalk(_)
RECURSIVE RefWalkAll(_)
\* the outcomes of the walks of the trees at the paths of a list, in order
RefWalkAll(list) ==
  IF list = <<>> THEN <<>> ELSE RefWalk(Head(list)) \o RefWalkAll(Tail(list))

\* the outcomes of a walk of the tree at p, depth first, the entry before
\* what is below it; a directory that cannot be listed yields a walk error
\* after its own entry
RefWalk(p) ==
  RefResolve(p) \o
    (IF p \notin Dirs THEN <<>>
     ELSE IF p \notin fs.readable THEN <<Err(FileProcessingError("WalkDir", p))>>
     ELSE RefWalkAll(SelectSeq(fs.listing[p], LAMBDA c : c \in fs.exist)))

\* the outcomes of identify_recursive(p)
RefTree(p) ==
  IF p \notin fs.exist THEN <<Err(FileProcessingError("PathNotFound", p))>>
  ELSE RefWalk(p)

\* the outcomes of one path of identify_multiple
RefSingle(p) ==
  IF p \notin fs.exist THEN <<Err(FileProcessingError("PathNotFound", p))>>
  ELSE RefResolve(p)

\* the outcomes of one path of identify_multiple_recursive
RefBlock(p) == IF p \in Dirs THEN RefTree(p) ELSE RefSingle(p)

RECURSIVE RefSingles(_)
\* the outcomes of the paths of identify_multiple, in order
RefSingles(list) ==
  IF list = <<>> THEN <<>> ELSE RefSingle(Head(list)) \o RefSingles(Tail(list))

RECURSIVE RefBlocks(_)
\* the outcomes of the paths of identify_multiple_recursive, in order
RefBlocks(list) ==
  IF list = <<>> THEN <<>> ELSE RefBlock(Head(list)) \o RefBlocks(Tail(list))

\* the outcomes of the operation in processing order
RefOutcomes ==
  CASE op = "identify_multiple" -> RefSingles(args)
    [] op = "identify_recursive" -> RefTree(args[1])
    [] op = "identify_multiple_recursive" -> RefBlocks(args)

\* the positions of the outcomes that are errors
Failures(outcomes) == {k \in DOMAIN outcomes : outcomes[k].tag = "Err"}

\* the records of a list of outcomes that are all records
Records(outcomes) == [k \in DOMAIN outcomes |-> outcomes[k].val]

\* the entries of the tree at p
Subtree(p) == {q \in fs.exist : Under(q, p)}

\* the positions of args that name no existing path
Missing == {k \in DOMAIN args : args[k] \notin fs.exist}

\* the last call of the operation
LastCall == log[Len(log)]

(***************************************************************************)
(* C3: identify_multiple and a missing path.                               *)
(***************************************************************************)
\* C3 as stated: with exactly one non-existent path in the list,
\* identify_multiple fails with PathNotFound carrying that path.
C3_Original ==
  (BatchDone /\ op = "identify_multiple" /\ Cardinality(Missing) = 1) =>
     ret = Err(FileProcessingError("PathNotFound", args[Least(Missing)]))

\* C3 as amended: with exactly one non-existent path in the list,
\* identify_multiple fails and returns no record; the error is PathNotFound
\* carrying that path unless a file earlier in the list cannot be read, and
\* then it is the I/O error of the earliest such file.
C3_MissingPathFails ==
  (BatchDone /\ op = "identify_multiple" /\ Cardinality(Missing) = 1) =>
     LET k == Least(Missing)
         unreadable == {j \in 1..(k - 1) :
                          args[j] \in Files /\ args[j] \notin fs.readable}
     IN  /\ ret.tag = "Err"
         /\ IF unreadable = {}
            THEN ret.val = FileProcessingError("PathNotFound", args[k])
            ELSE ret.val = FileProcessingError("Io", args[Least(unreadable)])

\* the missing path comes second, after a path whose record was built
C3_Witness ==
  /\ BatchDone
  /\ op = "identify_multiple"
  /\ Missing = {2}
  /\ Len(log) > 2
  /\ ret = Err(FileProcessingError("PathNotFound", args[2]))

(***************************************************************************)
(* C4: identify_recursive visits every entry once.                         *)
(***************************************************************************)
\* C4: on an existing tree whose entries can all be read, identify_recursive
\* returns as many records as the tree has entries, root and nested
\* directories included, and exactly one record for each entry.
C4_EveryEntryOnce ==
  (BatchDone /\ op = "identify_recursive" /\ args[1] \in fs.exist
     /\ Subtree(args[1]) \subseteq fs.readable) =>
     /\ ret.tag = "Ok"
     /\ Len(ret.val) = Cardinality(Subtree(args[1]))
     /\ \A p \in Subtree(args[1]) :
          Cardinality({k \in DOMAIN ret.val : ret.val[k].path = p}) = 1
     /\ \A k \in DOMAIN ret.val : ret.val[k] = RefRecord(ret.val[k].path)

\* the whole tree: the root, a file, a nested directory and a file in it
C4_Witness ==
  /\ BatchDone
  /\ op = "identify_recursive"
  /\ args[1] = "d"
  /\ fs.readable = Paths
  /\ ret.tag = "Ok"
  /\ Len(ret.val) = 4

(***************************************************************************)
(* C5: identify_multiple_recursive concatenates one block per path.        *)
(***************************************************************************)
\* C5: on a list of existing paths identify_multiple_recursive returns, when
\* it returns records at all (no entry fails to be read), the concatenation
\* in the order of the list of one block per path: the single record of a
\* file, the whole result of identify_recursive for a directory; and
\* identify_recursive on an existing root returns the records of its walk.
C5_BlocksInInputOrder ==
  /\ (BatchDone /\ op = "identify_multiple_recursive" /\ Missing = {}) =>
       IF Failures(RefBlocks(args)) = {}
       THEN ret = Ok(Records(RefBlocks(args)))
       ELSE ret.tag = "Err"
  /\ (BatchDone /\ op = "identify_recursive" /\ Missing = {}) =>
       IF Failures(RefTree(args[1])) = {}
       THEN ret = Ok(Records(RefTree(args[1])))
       ELSE ret.tag = "Err"

\* a directory with entries, then a file: the tree's records come first
C5_Witness ==
  /\ BatchDone
  /\ op = "identify_multiple_recursive"
  /\ Len(args) = 2
  /\ args[1] = "d/s"
  /\ args[2] = "d/f"
  /\ ret.tag = "Ok"
  /\ Len(ret.val) = 3
  /\ ret.val[3].path = "d/f"

(***************************************************************************)
(* C6, C7: the aggregation utilities.                                      *)
(***************************************************************************)
RECURSIVE FirstSeen(_, _)
\* the descriptions of the records in the order of their first occurrence
FirstSeen(rs, seen) ==
  IF rs = <<>> THEN <<>>
  ELSE IF Head(rs).description \in seen THEN FirstSeen(Tail(rs), seen)
  ELSE <<Head(rs).description>>
         \o FirstSeen(Tail(rs), seen \cup {Head(rs).description})

\* group_by_type was applied to the returned records
Grouped == pc = "done" /\ agg.op = "group_by_type"

\* C6 as stated: the keys of the mapping come in the order in which their
\* descriptions are first seen in the input.
C6_Original == Grouped => agg.keys = FirstSeen(ret.val, {})

\* C6 as amended: the keys of the mapping are the descriptions of the input,
\* each once and in no particular order (the order of a HashMap); the value
\* of a key is the subsequence of the input records with that description,
\* in their original order; every input record is in exactly one group.
C6_GroupsKeepRecordOrder ==
  Grouped =>
     /\ DOMAIN agg.out = {ret.val[k].description : k \in DOMAIN ret.val}
     /\ \A d \in DOMAIN agg.out :
          agg.out[d] = SelectSeq(ret.val, LAMBDA r : r.description = d)
     /\ {agg.keys[k] : k \in DOMAIN agg.keys} = DOMAIN agg.out
     /\ Len(agg.keys) = Cardinality(DOMAIN agg.out)
     /\ \A k \in DOMAIN ret.val :
          Cardinality({d \in DOMAIN agg.out :
                         \E j \in DOMAIN agg.out[d] : agg.out[d][j] = ret.val[k]}) = 1

\* two groups, one of two records, the keys not in first-seen order
C6_Witness ==
  /\ Grouped
  /\ Cardinality(DOMAIN agg.out) >= 2
  /\ \E d \in DOMAIN agg.out : Len(agg.out[d]) >= 2
  /\ agg.keys # FirstSeen(ret.val, {})

RECURSIVE Interleaves(_, _, _)
\* rs is a merge of fs1 and fs2 that keeps the order of each
Interleaves(rs, fs1, fs2) ==
  IF rs = <<>> THEN fs1 = <<>> /\ fs2 = <<>>
  ELSE \/ fs1 # <<>> /\ Head(fs1) = Head(rs) /\ Interleaves(Tail(rs), Tail(fs1), fs2)
       \/ fs2 # <<>> /\ Head(fs2) = Head(rs) /\ Interleaves(Tail(rs), fs1, Tail(fs2))

\* no record of one list is a record of the other
Disjoint(fs1, fs2) ==
  \A a \in DOMAIN fs1 : \A b \in DOMAIN fs2 : fs1[a] # fs2[b]

\* one of the two filters was applied to the returned records
Filtered == pc = "done" /\ agg.op \in {"filter_files", "filter_directories"}

\* the files and the directories filtered out of the returned records: the
\* output of the filter that was applied, and the other filter's
FilesOut == IF agg.op = "filter_files" THEN agg.out ELSE filter_files(ret.val)

DirectoriesOut ==
  IF agg.op = "filter_directories" THEN agg.out ELSE filter_directories(ret.val)

\* C7: filter_files and filter_directories of the same records are disjoint,
\* hold files only and directories only, and the records are a merge of the
\* two that keeps the order of each: every record is in exactly one of them.
C7_FiltersPartition ==
  Filtered =>
     /\ Disjoint(FilesOut, DirectoriesOut)
     /\ \A k \in DOMAIN FilesOut : ~FilesOut[k].is_directory
     /\ \A k \in DOMAIN DirectoriesOut : DirectoriesOut[k].is_directory
     /\ Interleaves(ret.val, FilesOut, DirectoriesOut)

\* records of both kinds, a directory between two files
C7_Witness ==
  /\ Filtered
  /\ Len(ret.val) >= 3
  /\ ~ret.val[1].is_directory
  /\ ret.val[2].is_directory
  /\ ~ret.val[3].is_directory
  /\ Len(FilesOut) = 2

(***************************************************************************)
(* C8: directory records.                                                  *)
(***************************************************************************)
\* the records an operation has returned, or holds in its vectors
HeldRecords ==
  results \o rresults \o
    (IF pc # "done" THEN <<>>
     ELSE IF ret.tag = "Ok" THEN ret.val
     ELSE IF ret.tag = "Returned" /\ op = "identify_many_bytes" THEN ret.val
     ELSE IF ret.tag = "Returned" /\ op = "identify_from_bytes" THEN ret.val
     ELSE <<>>)

\* C8: every record of every operation with is_directory set has no size and
\* the description "Directory"; a path that is a directory yields exactly
\* that record, whatever the directory holds, and is never read.
C8_DirectoryRecords ==
  /\ \A k \in DOMAIN HeldRecords :
       LET r == HeldRecords[k]
       IN  /\ r.is_directory => r.size = None /\ r.description = "Directory"
           /\ r.path \in Dirs => r = FileInfo(r.path, "Directory", TRUE, None)
  /\ \A k \in DOMAIN log : log[k].call = "read" => log[k].path \notin Dirs

\* a directory that holds a file matched by the table is returned as a
\* directory, with the record of the file it holds
C8_Witness ==
  /\ BatchDone
  /\ ret.tag = "Ok"
  /\ \E k \in DOMAIN ret.val :
       /\ ret.val[k].path = "d/s"
       /\ ret.val[k].is_directory
  /\ \E k \in DOMAIN ret.val :
       /\ ret.val[k].path = "d/s/g"
       /\ ret.val[k].description = "PNG image"

(***************************************************************************)
(* C9: a batch operation aborts on its first error.                        *)
(***************************************************************************)
\* the error a failed call raises
ErrorOf(c) ==
  FileProcessingError(CASE c.call = "exists" -> "PathNotFound"
                        [] c.call = "next" -> "WalkDir"
                        [] OTHER -> "Io",
                      c.path)

\* C9: when some item fails, a batch operation returns the error of the
\* earliest failing item in processing order and no record; the failing call
\* is the last call it makes and every call before it succeeded, so that no
\* later item is checked, stat'ed or read.  When no item fails it returns
\* the records of all items.
C9_AbortsOnFirstError ==
  BatchDone =>
     IF Failures(RefOutcomes) = {}
     THEN /\ ret = Ok(Records(RefOutcomes))
          /\ \A k \in DOMAIN log : log[k].ok
     ELSE /\ ret = RefOutcomes[Least(Failures(RefOutcomes))]
          /\ log # <<>>
          /\ ~LastCall.ok
          /\ ret.val = ErrorOf(LastCall)
          /\ \A k \in 1..(Len(log) - 1) : log[k].ok
          /\ \A k \in DOMAIN log : log[k].item <= LastCall.item

\* a file that cannot be read comes before a missing path: the I/O error is
\* returned and the missing path is never looked at
C9_Witness ==
  /\ BatchDone
  /\ op = "identify_multiple"
  /\ Len(args) = 2
  /\ args[2] \notin fs.exist
  /\ ret = Err(FileProcessingError("Io", args[1]))
  /\ LastCall.item = 1

(***************************************************************************)
(* C10: errors under concurrent deletion.                                  *)
(***************************************************************************)
\* the operation's own existence check of the item it failed at succeeded
PassedOwnCheck ==
  \E k \in DOMAIN log :
    /\ log[k].call = "exists"
    /\ log[k].item = LastCall.item
    /\ log[k].ok

\* a failed call makes the operation fail, with the error of its kind
FailureKinds ==
  /\ (\E k \in DOMAIN log : ~log[k].ok) <=> ret.tag = "Err"
  /\ ret.tag = "Err" =>
       /\ ~LastCall.ok
       /\ ret.val = ErrorOf(LastCall)
       /\ \A k \in 1..(Len(log) - 1) : log[k].ok

\* PathNotFound comes from a failed existence check of an argument
NotFoundIsChecked ==
  (ret.tag = "Err" /\ ret.val.kind = "PathNotFound") =>
     /\ LastCall.call = "exists"
     /\ ~LastCall.ok
     /\ ret.val.path = args[LastCall.item]

\* C10 as stated: PathNotFound is returned only for an argument that the
\* operation's existence check observed missing; a path that existed at its
\* existence check and then disappears makes the operation fail with an I/O
\* or walk error, never with PathNotFound, and yields no record.
C10_Original ==
  BatchDone =>
     /\ FailureKinds
     /\ NotFoundIsChecked
     /\ (ret.tag = "Err" /\ PassedOwnCheck) => ret.val.kind # "PathNotFound"

\* C10 as amended: PathNotFound is returned only for an argument, by an
\* existence check that observed it missing and was the operation's last
\* call; a directory argument of identify_multiple_recursive is checked
\* twice (by the batch loop, then by identify_recursive) and PathNotFound is
\* returned when it disappears between the two checks.  A path that passed
\* its last existence check and then disappears makes the metadata query,
\* the read or the walk fail with an I/O or walk error, never with
\* PathNotFound, and the operation returns no record.
C10_NotFoundOnlyFromCheck ==
  BatchDone =>
     /\ FailureKinds
     /\ NotFoundIsChecked
     /\ (ret.tag = "Err" /\ PassedOwnCheck /\ ret.val.kind = "PathNotFound") =>
          /\ op = "identify_multiple_recursive"
          /\ args[LastCall.item] \in Dirs
          /\ \E k \in DOMAIN log :
               log[k].call = "is_dir" /\ log[k].item = LastCall.item

\* a file deleted between its existence check and its metadata query
C10_Witness ==
  /\ BatchDone
  /\ op = "identify_multiple"
  /\ deletes > 0
  /\ Len(log) >= 2
  /\ log[Len(log) - 1].call = "exists"
  /\ log[Len(log) - 1].ok
  /\ LastCall.call = "metadata"
  /\ LastCall.path = log[Len(log) - 1].path
  /\ ret = Err(FileProcessingError("Io", LastCall.path))

====
